---------------------------- MODULE Spec2Model ----------------------------
(***************************************************************************)
(* A model of weapon.py: the parameter family (Parameter, ModifyParameter, *)
(* DamageParameter), the modifier pipeline FireMode.apply_mods, the fire   *)
(* mode state machine FireMode.pull_trigger and the event queue it feeds.  *)
(*                                                                         *)
(* Numbers.  Python floats are modelled as exact rationals <<n, d>> with   *)
(* d > 0 in lowest terms, plus the value NaN that numpy produces for a     *)
(* division of an array by a zero scalar followed by a multiplication by   *)
(* zero.  Floating-point rounding error is not modelled.                   *)
(*                                                                         *)
(* Arrays.  A numpy array is a heap object.  DamageParameter keeps three   *)
(* references (base, modded, quantized) that may name the same array; the  *)
(* model keeps the three values and two flags saying whether modded and    *)
(* quantized currently name the array that base names.                     *)
(***************************************************************************)
EXTENDS Integers, Sequences, FiniteSets, TLC

(***************************************************************************)
(* Rational arithmetic                                                     *)
(***************************************************************************)
NaN == <<0, 0>>

IsNaN(a) == a[2] = 0

Abs(n) == IF n < 0 THEN -n ELSE n

RECURSIVE GCD(_, _)
GCD(a, b) == IF b = 0 THEN a ELSE GCD(b, a % b)

\* the rational n/d (d # 0) in lowest terms with a positive denominator
Q(n, d) ==
    IF n = 0 THEN <<0, 1>>
    ELSE IF d = 1 THEN <<n, 1>>
    ELSE LET g == GCD(Abs(n), Abs(d))
             s == IF d < 0 THEN -1 ELSE 1
         IN  <<(s * n) \div g, (s * d) \div g>>

\* an integer as a number
I(n) == <<n, 1>>

Zero == <<0, 1>>
One == <<1, 1>>

RAdd(a, b) ==
    IF IsNaN(a) \/ IsNaN(b) THEN NaN
    ELSE Q(a[1] * b[2] + b[1] * a[2], a[2] * b[2])

RNeg(a) == IF IsNaN(a) THEN NaN ELSE <<-a[1], a[2]>>

RSub(a, b) == RAdd(a, RNeg(b))

RMul(a, b) ==
    IF IsNaN(a) \/ IsNaN(b) THEN NaN
    ELSE Q(a[1] * b[1], a[2] * b[2])

IsZero(a) == a[2] # 0 /\ a[1] = 0

\* a / b for b # 0 (the callers decide what a zero divisor does)
RDiv(a, b) ==
    IF IsNaN(a) \/ IsNaN(b) THEN NaN
    ELSE Q(a[1] * b[2], a[2] * b[1])

\* comparisons; every comparison with NaN is false, as for floats
RLt(a, b) == ~IsNaN(a) /\ ~IsNaN(b) /\ a[1] * b[2] < b[1] * a[2]
RLe(a, b) == ~IsNaN(a) /\ ~IsNaN(b) /\ a[1] * b[2] <= b[1] * a[2]
RGt(a, b) == RLt(b, a)
RGe(a, b) == RLe(b, a)

\* Python's max(a, b): b when b > a, else a
RMax(a, b) == IF RGt(b, a) THEN b ELSE a

\* floor of a rational, as an integer
RFloor(a) == a[1] \div a[2]

\* Python's int(x): truncation towards zero
RTrunc(a) == IF a[1] >= 0 THEN a[1] \div a[2] ELSE -((-a[1]) \div a[2])

\* Python's x % 1: the fractional part, in [0, 1)
RFrac(a) == RSub(a, I(RFloor(a)))

\* round(x, 0) and numpy.round(x, 0): round half to even
RRound(a) ==
    IF IsNaN(a) THEN NaN
    ELSE LET f == RFloor(a)
             r == a[1] % a[2]
         IN  IF 2 * r < a[2] THEN I(f)
             ELSE IF 2 * r > a[2] THEN I(f + 1)
             ELSE IF f % 2 = 0 THEN I(f) ELSE I(f + 1)

(***************************************************************************)
(* Damage vectors: numpy arrays of NSlots floats, indexed from 0           *)
(***************************************************************************)
NSlots == 20

Slots == 0 .. (NSlots - 1)

\* the array whose slot i holds F(i); a tuple, slot i at position i + 1
Array(F(_)) ==
    <<F(0), F(1), F(2), F(3), F(4), F(5), F(6), F(7), F(8), F(9),
      F(10), F(11), F(12), F(13), F(14), F(15), F(16), F(17), F(18), F(19)>>

\* v[i]
At(v, i) == v[i + 1]

ZeroVec == Array(LAMBDA i : Zero)

NaNVec == Array(LAMBDA i : NaN)

\* a vector given by its leading entries (the records below always give the
\* four leading entries and zeros elsewhere)
Vec(imp, pun, sla, heat) ==
    Array(LAMBDA i : CASE i = 0 -> imp [] i = 1 -> pun [] i = 2 -> sla
                       [] i = 3 -> heat [] OTHER -> Zero)

RECURSIVE SumTo(_, _)
SumTo(v, i) == IF i < 0 THEN Zero ELSE RAdd(SumTo(v, i - 1), At(v, i))

\* Python's sum(array)
VSum(v) == SumTo(v, NSlots - 1)

VScale(v, c) == Array(LAMBDA i : RMul(At(v, i), c))

VAdd(v, w) == Array(LAMBDA i : RAdd(At(v, i), At(w, i)))

(***************************************************************************)
(* The parameter family                                                    *)
(***************************************************************************)
\* Parameter.__init__
Parameter(base) == [base |-> base, modded |-> base]

\* Parameter.reset
Parameter_reset(p) == [p EXCEPT !.modded = p.base]

\* ModifyParameter.__init__
ModifyParameter(base) == [base |-> base, modded |-> base, current |-> base]

\* a reset that leaves current as it is
ModifyParameter_reset_keeps_current(p) == [p EXCEPT !.modded = p.base]

\* ModifyParameter.reset: modded := base, then current := modded
ModifyParameter_reset(p) == [p EXCEPT !.modded = p.base, !.current = p.base]

\* DamageParameter.__init__: base, modded and quantized all name the one
\* array that was passed in
DamageParameter(base) ==
    [base |-> base, modded |-> base, quantized |-> base,
     modded_is_base |-> TRUE, quantized_is_base |-> TRUE]

\* a reset that rebinds modded and leaves quantized as it is
DamageParameter_reset_modded_only(dp) ==
    [dp EXCEPT !.modded = dp.base, !.modded_is_base = TRUE]

\* DamageParameter.reset: both references are rebound to the base array
DamageParameter_reset(dp) ==
    [dp EXCEPT !.modded = dp.base, !.quantized = dp.base,
               !.modded_is_base = TRUE, !.quantized_is_base = TRUE]

\* an assignment `dp.modded = v` of a fresh array
BindModded(dp, v) == [dp EXCEPT !.modded = v, !.modded_is_base = FALSE]

\* an assignment `dp.quantized = v` of a fresh array
BindQuantized(dp, v) == [dp EXCEPT !.quantized = v, !.quantized_is_base = FALSE]

\* a write through the reference dp.modded (item assignment, `*=`): every
\* reference that names the same array sees it
StoreModded(dp, v) ==
    [dp EXCEPT !.modded = v,
               !.base = IF dp.modded_is_base THEN v ELSE @,
               !.quantized = IF dp.modded_is_base /\ dp.quantized_is_base
                             THEN v ELSE @]

\* a write through the reference dp.quantized
StoreQuantized(dp, v) ==
    [dp EXCEPT !.quantized = v,
               !.base = IF dp.quantized_is_base THEN v ELSE @,
               !.modded = IF dp.modded_is_base /\ dp.quantized_is_base
                          THEN v ELSE @]

\* DamageParameter.multiply: `self.modded *= val` then `self.quantized *= val`,
\* both in place
DamageParameter_multiply(dp, val) ==
    LET d1 == StoreModded(dp, VScale(dp.modded, val))
    IN  StoreQuantized(d1, VScale(d1.quantized, val))

(***************************************************************************)
(* Weapon data: the records of data["fireModes"].  A record is a function  *)
(* from the field names it has; dict.get(key, default) is Get.             *)
(***************************************************************************)
Get(rec, key, default) == IF key \in DOMAIN rec THEN rec[key] ELSE default

NoFields == [k \in {} |-> Zero]

\* the AUTO scenario: multishot 2, ammo cost 1, magazine 2
RecAuto ==
    [damagePerShot |-> Vec(I(3), Zero, I(5), Zero),
     criticalChance |-> Q(1, 4), criticalMultiplier |-> I(2),
     procChance |-> Q(1, 5), magazineSize |-> I(2), multishot |-> I(2),
     ammoCost |-> I(1)]

\* a HELD (charge) fire mode with a fractional multishot and an ammo cost
\* that does not divide the magazine
RecHeld ==
    [trigger |-> "HELD", damagePerShot |-> Vec(Zero, I(4), Zero, I(2)),
     criticalChance |-> Q(1, 10), criticalMultiplier |-> Q(3, 2),
     procChance |-> Q(1, 2), magazineSize |-> I(3), fireRate |-> I(2),
     reloadTime |-> I(2), multishot |-> Q(3, 2), ammoCost |-> I(2),
     chargeTime |-> Q(1, 2), embedDelay |-> Q(1, 5)]

\* fire modes whose fire rate is zero, one shot and two shots per magazine
RecStall1 == [damagePerShot |-> Vec(I(1), Zero, Zero, Zero), fireRate |-> Zero,
              magazineSize |-> I(1)]
RecStall2 == [damagePerShot |-> Vec(I(1), Zero, Zero, Zero), fireRate |-> Zero,
              magazineSize |-> I(2)]

\* a fire mode whose hits are stamped before the trigger pull
RecEarly == [damagePerShot |-> Vec(I(2), Zero, Zero, Zero),
             embedDelay |-> Q(-1, 4), magazineSize |-> I(2)]

\* effect records: one that gives every optional field and one that gives none
EffFull ==
    [damagePerShot |-> Vec(Zero, Zero, Zero, I(7)), criticalChance |-> Q(1, 2),
     criticalMultiplier |-> I(3), procChance |-> Q(1, 3), multishot |-> I(2),
     embedDelay |-> Q(1, 2)]
EffBare == NoFields

\* a fire mode that lists secondary effects
RecBlast ==
    [damagePerShot |-> Vec(I(6), Zero, Zero, Zero), magazineSize |-> I(2),
     multishot |-> I(2), embedDelay |-> Q(1, 4),
     secondaryEffects |-> [explosion |-> EffFull, shrapnel |-> EffBare]]

\* ExportWeapons.json: each weapon is the list of its fire-mode records
Weapons ==
    << <<RecAuto>>, <<RecHeld>>, <<NoFields>>, <<RecStall2, RecStall1>>,
       <<RecBlast>>, <<RecEarly>> >>

\* a weapon whose two fire modes both fire
PairWeapons == << <<RecAuto, RecHeld>> >>

(***************************************************************************)
(* FireMode.apply_mods.  The fire mode is a record whose fields carry the  *)
(* names of the attributes of the source.  An operation returns            *)
(* [fault, obj]: the exception it raised ("none" when it returned) and the *)
(* object as the operation left it.                                        *)
(***************************************************************************)
Ok(s) == [fault |-> "none", obj |-> s]

\* F(e), with e evaluated once before F is applied to its value
Then(e, F(_)) == CHOOSE r \in {F(x) : x \in {e}} : TRUE

Then2(e1, e2, F(_, _)) == CHOOSE r \in {F(x, y) : x \in {e1}, y \in {e2}} : TRUE

Raise(e, s) == [fault |-> e, obj |-> s]

\* FireMode.load_mods
load_mods(s) ==
    [s EXCEPT !.damagePerShot_m["base"] = Zero,
              !.damagePerShot_m["final_multiplier"] = One]

\* a damage block that starts from the modded array of the last run
apply_mods_damage_from_modded(s) ==
    LET prev == s.damagePerShot.modded
        additive_base == s.bonusDamagePerShot_m["additive_base"]
        Modded(total) ==
            Array(LAMBDA i :
                LET weight == RDiv(At(prev, i), total)
                    damagePerShot_bonus == RMul(weight, additive_base)
                IN  RMul(RMul(RMul(RAdd(At(prev, i), damagePerShot_bonus),
                                   RAdd(One, s.damagePerShot_m["base"])),
                              s.damagePerShot_m["multishot_multiplier"]),
                         s.damagePerShot_m["final_multiplier"]))
    IN  [s EXCEPT !.damagePerShot =
                      BindModded(@, Then(RMax(VSum(prev), Q(1, 100)), Modded))]

\* ## Damage: the modded base damage, a fresh array
apply_mods_damage(s) ==
    LET base == s.damagePerShot.base
        additive_base == s.bonusDamagePerShot_m["additive_base"]
        Modded(total) ==
            Array(LAMBDA i :
                LET weight == RDiv(At(base, i), total)
                    damagePerShot_bonus == RMul(weight, additive_base)
                IN  RMul(RMul(RMul(RAdd(At(base, i), damagePerShot_bonus),
                                   RAdd(One, s.damagePerShot_m["base"])),
                              s.damagePerShot_m["multishot_multiplier"]),
                         s.damagePerShot_m["final_multiplier"]))
    IN  [s EXCEPT !.damagePerShot =
                      BindModded(@, Then(RMax(VSum(base), Q(1, 100)), Modded))]

\* # Bonus damage types: item assignments through elementalDamagePerShot.modded
apply_mods_elemental(s) ==
    LET m == s.damagePerShot.modded
        e == s.elementalDamagePerShot.modded
        Elemental(total_base_damage) ==
            Array(LAMBDA i :
                CASE i = 0 -> RMul(At(m, 0), s.impact_m["base"])
                  [] i = 1 -> RMul(At(m, 1), s.puncture_m["base"])
                  [] i = 2 -> RMul(At(m, 2), s.slash_m["base"])
                  [] i = 3 -> RMul(total_base_damage, s.heat_m["base"])
                  [] i = 4 -> RMul(total_base_damage, s.cold_m["base"])
                  [] i = 5 -> RMul(total_base_damage, s.electric_m["base"])
                  [] i = 6 -> RMul(total_base_damage, s.toxin_m["base"])
                  [] OTHER -> At(e, i))
    IN  [s EXCEPT !.elementalDamagePerShot =
                      StoreModded(@, Then(VSum(m), Elemental))]

\* a quantization that truncates to the multiple of quanta below
QuantizeVec_floor(v, quanta) ==
    IF IsZero(quanta) \/ IsNaN(quanta) THEN NaNVec
    ELSE Array(LAMBDA i : RMul(I(RFloor(RDiv(At(v, i), quanta))), quanta))

\* numpy.round(v / quanta, 0) * quanta; a zero quanta gives inf or nan in every
\* slot of the quotient, and nan after the multiplication by zero
QuantizeVec(v, quanta) ==
    IF IsZero(quanta) \/ IsNaN(quanta) THEN NaNVec
    ELSE Array(LAMBDA i : RMul(RRound(RDiv(At(v, i), quanta)), quanta))

QuantaSteps == 16

\* the quantization of both damage parameters, each a fresh array
apply_mods_quantize(s) ==
    LET Quantized(quanta) ==
            [s EXCEPT
               !.damagePerShot = BindQuantized(@, QuantizeVec(@.modded, quanta)),
               !.elementalDamagePerShot =
                   BindQuantized(@, QuantizeVec(@.modded, quanta))]
    IN  Then(RDiv(RAdd(VSum(s.damagePerShot.modded),
                       VSum(s.elementalDamagePerShot.modded)),
                  I(QuantaSteps)),
             Quantized)

\* ## Critical Chance, Critical Damage
apply_mods_critical(s) ==
    LET cc == s.criticalChance_m
        cm == s.criticalMultiplier_m
    IN  [s EXCEPT
           !.criticalChance.modded =
               RAdd(RMul(RAdd(RMul(RAdd(s.criticalChance.base,
                                        cc["additive_base"]),
                                   RAdd(One, cc["base"])),
                              cc["additive_final"]),
                         cc["deadly_munitions"]),
                    cc["covenant"]),
           !.criticalMultiplier.modded =
               RMul(RAdd(RMul(RAdd(s.criticalMultiplier.base,
                                   cm["additive_base"]),
                              RAdd(One, cm["base"])),
                         cm["additive_final"]),
                    cm["final_multiplier"])]

\* ## Status chance and the proc distribution
apply_mods_status(s) ==
    LET pc == s.procChance_m
        Normalized(w, tot_weight) ==
            VScale(w, IF RGt(tot_weight, Zero) THEN RDiv(One, tot_weight)
                      ELSE Zero)
        Weighted(w) == Then2(w, VSum(w), Normalized)
    IN  [s EXCEPT
           !.procChance.modded =
               RMul(RMul(RMul(RAdd(s.procChance.base, pc["additive_base"]),
                              RAdd(RAdd(One, pc["base"]), pc["additive_final"])),
                         pc["final_multiplier"]),
                    pc["multishot_multiplier"]),
           !.procProbabilities =
               Then(VAdd(s.damagePerShot.modded,
                         s.elementalDamagePerShot.modded), Weighted),
           !.procCumulativeProbabilities = Zero]

\* ## Other: the assignments run in order until a division by zero raises
apply_mods_other(s) ==
    LET s1 == [s EXCEPT
                 !.multishot.modded =
                     RMul(s.multishot.base, RAdd(One, s.multishot_m["base"])),
                 !.fireRate.modded =
                     RMul(s.fireRate.base, RAdd(One, s.fireRate_m["base"]))]
        rdiv == RAdd(One, s.reloadTime_m["base"])
        s2 == [s1 EXCEPT
                 !.reloadTime.modded = RDiv(s.reloadTime.base, rdiv),
                 !.magazineSize.modded =
                     RMul(s.magazineSize.base,
                          RAdd(One, s.magazineSize_m["base"]))]
        cdiv == RAdd(One, s.fireRate_m["base"])
        s3 == [s2 EXCEPT
                 !.chargeTime.modded = RDiv(s.chargeTime.base, cdiv),
                 !.embedDelay.modded = s.embedDelay.base,
                 !.ammoCost.modded =
                     RMul(RMul(s.ammoCost.base,
                               RMax(Zero, RSub(One, s.ammoCost_m["base"]))),
                          RMax(Zero, RSub(One,
                                   s.ammoCost_m["energized_munitions"])))]
    IN  IF IsZero(rdiv) THEN Raise("ZeroDivisionError", s1)
        ELSE IF IsZero(cdiv) THEN Raise("ZeroDivisionError", s2)
        ELSE Ok(s3)

\* the statements of apply_mods up to the last block, in their order
apply_mods_stats(s) ==
    Then(Then(Then(Then(Then(s, apply_mods_damage), apply_mods_elemental),
                   apply_mods_quantize), apply_mods_critical),
         apply_mods_status)

\* FireMode.apply_mods
apply_mods(s) == Then(apply_mods_stats(s), apply_mods_other)

(***************************************************************************)
(* Construction                                                            *)
(***************************************************************************)
\* the attributes FireModeEffect.__init__ reads from its parent fire mode
EffectParentReads ==
    {"data", "damagePerShot", "criticalChance", "criticalMultiplier",
     "procChance"}

\* a value an effect field holds: a number or vector of its own record, or
\* the parent's parameter object, which the default expression names
Own(v) == [kind |-> "value", v |-> v]
ParentObject(attr) == [kind |-> "object", attr |-> attr]

\* FireModeEffect.__init__.  The default expressions fire_mode.damagePerShot,
\* ... are evaluated before dict.get is called, whether or not the record has
\* the field.
FireModeEffect_init(fire_mode, name) ==
    IF ~(EffectParentReads \subseteq DOMAIN fire_mode)
    THEN Raise("AttributeError", NoFields)
    ELSE LET data == fire_mode.data["secondaryEffects"][name]
         IN  Ok([name |-> name, data |-> data,
                 damagePerShot |->
                     IF "damagePerShot" \in DOMAIN data
                     THEN Own(data["damagePerShot"])
                     ELSE ParentObject("damagePerShot"),
                 criticalChance |->
                     IF "criticalChance" \in DOMAIN data
                     THEN Own(data["criticalChance"])
                     ELSE ParentObject("criticalChance"),
                 criticalMultiplier |->
                     IF "criticalMultiplier" \in DOMAIN data
                     THEN Own(data["criticalMultiplier"])
                     ELSE ParentObject("criticalMultiplier"),
                 procChance |->
                     IF "procChance" \in DOMAIN data
                     THEN Own(data["procChance"])
                     ELSE ParentObject("procChance"),
                 multishot |-> Get(data, "multishot", One),
                 embedDelay |-> Get(data, "embedDelay", Zero),
                 forcedProc |-> Get(data, "forcedProc", <<>>)])

\* the names of a mapping in the order the program iterates over them
RECURSIVE KeysInOrder(_)
KeysInOrder(S) ==
    IF S = {} THEN <<>>
    ELSE LET k == CHOOSE x \in S : TRUE
         IN  <<k>> \o KeysInOrder(S \ {k})

\* the quantization of the base critical multiplier, line 54
CritQuantum == Q(4095, 32)

QuantizeCriticalMultiplier(base) ==
    RDiv(RRound(RMul(base, CritQuantum)), CritQuantum)

\* the attributes set by FireMode.__init__ from line 46 to line 98
FireMode_fields(data) ==
    [attack_index |-> 1,
     trigger |-> Get(data, "trigger", "AUTO"),
     damagePerShot |-> DamageParameter(Get(data, "damagePerShot", ZeroVec)),
     elementalDamagePerShot |-> DamageParameter(ZeroVec),
     criticalChance |-> Parameter(Get(data, "criticalChance", Zero)),
     criticalMultiplier |->
         [Parameter(Get(data, "criticalMultiplier", One)) EXCEPT
             !.base = QuantizeCriticalMultiplier(@)],
     procChance |-> Parameter(Get(data, "procChance", Zero)),
     procProbabilities |-> ZeroVec,
     procCumulativeProbabilities |-> Zero,
     magazineSize |-> ModifyParameter(Get(data, "magazineSize", I(100))),
     fireRate |-> Parameter(Get(data, "fireRate", I(5))),
     reloadTime |-> Parameter(Get(data, "reloadTime", One)),
     multishot |-> Parameter(Get(data, "multishot", One)),
     ammoCost |-> Parameter(Get(data, "ammoCost", One)),
     chargeTime |-> Parameter(Get(data, "chargeTime", Zero)),
     embedDelay |-> Parameter(Get(data, "embedDelay", Zero)),
     forcedProc |-> Get(data, "forcedProc", <<>>),
     radial |-> FALSE,
     damagePerShot_m |->
         [base |-> Zero, condition_overload_base |-> Zero,
          condition_overload_multiplier |-> Zero, direct |-> Zero,
          final_multiplier |-> One, multishot_multiplier |-> One],
     bonusDamagePerShot_m |-> [additive_base |-> Zero],
     criticalChance_m |->
         [base |-> Zero, additive_base |-> Zero, additive_final |-> Zero,
          covenant |-> Zero, deadly_munitions |-> One],
     criticalMultiplier_m |->
         [base |-> Zero, additive_base |-> Zero, additive_final |-> Zero,
          final_multiplier |-> One],
     procChance_m |->
         [base |-> Zero, additive_base |-> Zero, additive_final |-> Zero,
          final_multiplier |-> One, multishot_multiplier |-> One],
     magazineSize_m |-> [base |-> Zero],
     fireRate_m |-> [base |-> Zero, final_multiplier |-> One],
     reloadTime_m |-> [base |-> Zero],
     multishot_m |-> [base |-> Zero],
     heat_m |-> [base |-> Zero, uncombinable |-> Zero],
     cold_m |-> [base |-> Zero, uncombinable |-> Zero],
     electric_m |-> [base |-> Zero, uncombinable |-> Zero],
     toxin_m |-> [base |-> Zero, uncombinable |-> Zero],
     blast_m |-> [base |-> Zero],
     radiation_m |-> [base |-> Zero],
     gas_m |-> [base |-> Zero],
     magnetic_m |-> [base |-> Zero],
     viral_m |-> [base |-> Zero],
     corrosive_m |-> [base |-> Zero],
     impact_m |-> [base |-> Zero, stance |-> Zero],
     puncture_m |-> [base |-> Zero, stance |-> Zero],
     slash_m |-> [base |-> Zero, stance |-> Zero],
     statusDuration_m |-> [base |-> Zero],
     factionDamage_m |-> [base |-> Zero],
     ammoCost_m |-> [base |-> Zero, energized_munitions |-> Zero]]

\* two records joined: the attributes of both
Join(r1, r2) ==
    [k \in DOMAIN r1 \cup DOMAIN r2 |-> IF k \in DOMAIN r1 THEN r1[k] ELSE r2[k]]

\* FireMode.__init__: the effects are built at line 45, from the object that
\* has only the attributes of lines 41 to 44; the rest follows
FireMode_init(data, name) ==
    LET partial == [name |-> name, data |-> data]
        names == KeysInOrder(DOMAIN Get(data, "secondaryEffects", NoFields))
        built == [i \in DOMAIN names |-> FireModeEffect_init(partial, names[i])]
    IN  IF \E i \in DOMAIN built : built[i].fault # "none"
        THEN Raise("AttributeError", partial)
        ELSE LET full == Join(Join(partial,
                                [fire_mode_effects |->
                                    [i \in DOMAIN built |-> built[i].obj]]),
                              FireMode_fields(data))
                 r == apply_mods(load_mods(full))
             IN  IF r.fault # "none" THEN r
                 ELSE Ok(Join(r.obj, [refresh |-> TRUE]))

\* FireMode.reset
FireMode_reset(s) ==
    [s EXCEPT !.attack_index = 1,
              !.damagePerShot = DamageParameter_reset(@),
              !.elementalDamagePerShot = DamageParameter_reset(@),
              !.criticalChance = Parameter_reset(@),
              !.criticalMultiplier = Parameter_reset(@),
              !.procChance = Parameter_reset(@),
              !.magazineSize = ModifyParameter_reset(@),
              !.fireRate = Parameter_reset(@),
              !.reloadTime = Parameter_reset(@),
              !.multishot = Parameter_reset(@),
              !.ammoCost = Parameter_reset(@),
              !.chargeTime = Parameter_reset(@),
              !.embedDelay = Parameter_reset(@)]

(***************************************************************************)
(* The simulation driver's services and FireMode.pull_trigger              *)
(***************************************************************************)
\* simulation.get_call_index(): returns the next sequence number, and counts
get_call_index(counter) == [value |-> counter, counter |-> counter + 1]

\* event_queue.put((time, simulation.get_call_index(), EventTrigger(...))):
\* sim is [queue, call_index]; the queue is kept in the order of the puts
\* a put that reads the counter without advancing it
Put_stale(sim, item) ==
    [queue |-> Append(sim.queue,
                      [time |-> item.time, seq |-> sim.call_index,
                       func |-> item.func, src |-> item.src]),
     call_index |-> sim.call_index]

Put(sim, item) ==
    LET r == get_call_index(sim.call_index)
    IN  [queue |-> Append(sim.queue,
                          [time |-> item.time, seq |-> r.value,
                           func |-> item.func, src |-> item.src]),
         call_index |-> r.counter]

RECURSIVE PutAll(_, _)
PutAll(sim, items) ==
    IF items = <<>> THEN sim
    ELSE Then(Put(sim, Head(items)), LAMBDA sim1 : PutAll(sim1, Tail(items)))

\* get_tier: the values int(random() < chance % 1) + int(chance) can take
get_tier(chance) ==
    {RTrunc(chance) + b : b \in IF RGt(RFrac(chance), Zero) THEN {0, 1} ELSE {0}}

\* a cluster whose delays are taken off the time instead of added to it
Cluster_early(s, f, t) ==
    LET fm_time == RSub(t, s.embedDelay.modded)
    IN  <<[time |-> fm_time, func |-> "pellet_hit", src |-> <<f, 0>>]>> \o
        [i \in DOMAIN s.fire_mode_effects |->
            [time |-> RSub(fm_time, s.fire_mode_effects[i].embedDelay),
             func |-> "pellet_hit", src |-> <<f, i>>]]

\* one pass of the loop body of lines 200 to 206 at time t: the primary hit
\* of fire mode f, then one hit per effect
Cluster(s, f, t) ==
    LET fm_time == RAdd(t, s.embedDelay.modded)
    IN  <<[time |-> fm_time, func |-> "pellet_hit", src |-> <<f, 0>>]>> \o
        [i \in DOMAIN s.fire_mode_effects |->
            [time |-> RAdd(s.fire_mode_effects[i].embedDelay, fm_time),
             func |-> "pellet_hit", src |-> <<f, i>>]]

\* for _ in range(multishot)
RECURSIVE Clusters(_, _, _, _)
Clusters(s, f, t, multishot) ==
    IF multishot <= 0 THEN <<>>
    ELSE Cluster(s, f, t) \o Clusters(s, f, t, multishot - 1)

\* a HELD branch that also rescales the modded damage by the roll
pull_trigger_fire_rescales(s, multishot_roll) ==
    LET s1 == [s EXCEPT !.magazineSize.current = RSub(@, s.ammoCost.modded)]
    IN  IF s.trigger = "HELD"
        THEN [s1 EXCEPT
                !.damagePerShot_m["multishot_multiplier"] = I(multishot_roll),
                !.procChance_m["multishot_multiplier"] = I(multishot_roll),
                !.damagePerShot =
                    StoreModded(@, VScale(@.modded, I(multishot_roll)))]
        ELSE s1

\* lines 193 to 198: the magazine decrement and the HELD branch
pull_trigger_fire(s, multishot_roll) ==
    LET s1 == [s EXCEPT !.magazineSize.current = RSub(@, s.ammoCost.modded)]
    IN  IF s.trigger = "HELD"
        THEN [s1 EXCEPT
                !.damagePerShot_m["multishot_multiplier"] = I(multishot_roll),
                !.procChance_m["multishot_multiplier"] = I(multishot_roll)]
        ELSE s1

\* a loop count that is the roll for every trigger type
pull_trigger_multishot_roll(s, multishot_roll) == multishot_roll

\* the loop count of line 200
pull_trigger_multishot(s, multishot_roll) ==
    IF s.trigger = "HELD" THEN 1 ELSE multishot_roll

\* a reload branch that schedules the reload without refilling the magazine
pull_trigger_next_no_refill(s, t) ==
    LET reload == ~RGt(s.magazineSize.current, Zero)
    IN  IF IsZero(s.fireRate.modded)
        THEN [fault |-> "ZeroDivisionError", obj |-> s, next_event |-> Zero]
        ELSE LET period == RDiv(One, s.fireRate.modded)
                 delay == IF reload THEN RMax(s.reloadTime.modded, period)
                          ELSE period
             IN  [fault |-> "none", obj |-> s,
                  next_event |-> RAdd(RAdd(t, delay), s.chargeTime.modded)]

\* a next pull that guards a zero fire rate with a period of zero
pull_trigger_next_guarded(s, t) ==
    LET reload == ~RGt(s.magazineSize.current, Zero)
        s1 == IF reload
              THEN [s EXCEPT !.magazineSize.current = s.magazineSize.modded]
              ELSE s
        period == IF IsZero(s.fireRate.modded) THEN Zero
                  ELSE RDiv(One, s.fireRate.modded)
        delay == IF reload THEN RMax(s.reloadTime.modded, period) ELSE period
    IN  [fault |-> "none", obj |-> s1,
         next_event |-> RAdd(RAdd(t, delay), s.chargeTime.modded)]

\* a reload check that reloads only below zero
pull_trigger_next_below_zero(s, t) ==
    LET reload == RLt(s.magazineSize.current, Zero)
        s1 == IF reload
              THEN [s EXCEPT !.magazineSize.current = s.magazineSize.modded]
              ELSE s
    IN  IF IsZero(s.fireRate.modded)
        THEN [fault |-> "ZeroDivisionError", obj |-> s1, next_event |-> Zero]
        ELSE LET period == RDiv(One, s.fireRate.modded)
                 delay == IF reload THEN RMax(s.reloadTime.modded, period)
                          ELSE period
             IN  [fault |-> "none", obj |-> s1,
                  next_event |-> RAdd(RAdd(t, delay), s.chargeTime.modded)]

\* a reload delay that adds the reload time to the shot period
pull_trigger_next_sum(s, t) ==
    LET reload == ~RGt(s.magazineSize.current, Zero)
        s1 == IF reload
              THEN [s EXCEPT !.magazineSize.current = s.magazineSize.modded]
              ELSE s
    IN  IF IsZero(s.fireRate.modded)
        THEN [fault |-> "ZeroDivisionError", obj |-> s1, next_event |-> Zero]
        ELSE LET period == RDiv(One, s.fireRate.modded)
                 delay == IF reload THEN RAdd(s.reloadTime.modded, period)
                          ELSE period
             IN  [fault |-> "none", obj |-> s1,
                  next_event |-> RAdd(RAdd(t, delay), s.chargeTime.modded)]

\* lines 209 to 214: the reload check and the time of the next trigger pull;
\* 1/fireRate.modded raises when the fire rate is zero
pull_trigger_next(s, t) ==
    LET reload == ~RGt(s.magazineSize.current, Zero)
        s1 == IF reload
              THEN [s EXCEPT !.magazineSize.current = s.magazineSize.modded]
              ELSE s
    IN  IF IsZero(s.fireRate.modded)
        THEN [fault |-> "ZeroDivisionError", obj |-> s1, next_event |-> Zero]
        ELSE LET period == RDiv(One, s.fireRate.modded)
                 delay == IF reload THEN RMax(s.reloadTime.modded, period)
                          ELSE period
             IN  [fault |-> "none", obj |-> s1,
                  next_event |-> RAdd(RAdd(t, delay), s.chargeTime.modded)]

\* a pull_trigger that schedules no next pull after a reload
pull_trigger_stops_on_reload(s, f, t, multishot_roll, sim) ==
    LET Rest(s1, sim1) ==
            LET Last(n) ==
                    IF n.fault # "none"
                    THEN [fault |-> n.fault, obj |-> n.obj, sim |-> sim1]
                    ELSE IF ~RGt(s1.magazineSize.current, Zero)
                    THEN [fault |-> "none", obj |-> n.obj, sim |-> sim1]
                    ELSE [fault |-> "none", obj |-> n.obj,
                          sim |-> Put(sim1, [time |-> n.next_event,
                                             func |-> "pull_trigger",
                                             src |-> <<f, 0>>])]
            IN  Then(pull_trigger_next(s1, t), Last)
        Fired(s1) ==
            Then(Clusters(s1, f, t, pull_trigger_multishot(s, multishot_roll)),
                 LAMBDA hits : Then(PutAll(sim, hits), LAMBDA sim1 : Rest(s1, sim1)))
    IN  Then(pull_trigger_fire(s, multishot_roll), Fired)

\* FireMode.pull_trigger of fire mode f at simulation time t with the roll
\* get_tier gave: [fault, obj, sim]; the stages are the decrement and HELD
\* branch, the loop, the reload check, and the put of line 216
pull_trigger(s, f, t, multishot_roll, sim) ==
    LET Rest(s1, sim1) ==
            LET Last(n) ==
                    IF n.fault # "none"
                    THEN [fault |-> n.fault, obj |-> n.obj, sim |-> sim1]
                    ELSE [fault |-> "none", obj |-> n.obj,
                          sim |-> Put(sim1, [time |-> n.next_event,
                                             func |-> "pull_trigger",
                                             src |-> <<f, 0>>])]
            IN  Then(pull_trigger_next(s1, t), Last)
        Fired(s1) ==
            Then(Clusters(s1, f, t, pull_trigger_multishot(s, multishot_roll)),
                 LAMBDA hits : Then(PutAll(sim, hits), LAMBDA sim1 : Rest(s1, sim1)))
    IN  Then(pull_trigger_fire(s, multishot_roll), Fired)

(***************************************************************************)
(* The state machine                                                       *)
(***************************************************************************)
\* bounds of the exploration
MaxIndex == 5
MaxEdits == 1

\* what the modding layer may write into a modifier bucket
ModChoices ==
    { <<"heat_m", "base", Q(1, 2)>>,
      <<"slash_m", "base", Q(1, 4)>>,
      <<"bonusDamagePerShot_m", "additive_base", I(4)>>,
      <<"multishot_m", "base", Q(-1, 2)>>,
      <<"fireRate_m", "base", I(-2)>>,
      <<"fireRate_m", "base", I(-1)>>,
      <<"reloadTime_m", "base", I(-1)>>,
      <<"magazineSize_m", "base", Q(-1, 2)>> }

\* the factors DamageParameter.multiply is called with
MultiplyFactors == {I(2)}

\* the effect records that may be attached to a constructed fire mode
EffectCatalog == [explosion |-> EffFull, shrapnel |-> EffBare]

VARIABLES
    fault,        \* "none", or the exception that ended the run
    data,         \* Weapon.data["fireModes"]: the fire-mode records
    fm,           \* Weapon.fire_modes: the FireMode objects
    time,         \* simulation.time
    event_queue,  \* simulation.event_queue, entries in the order of the puts
    call_index,   \* the counter behind simulation.get_call_index
    pushed,       \* history: every entry ever put, in the order of the puts
    op,           \* history: the operation that ran last
    edits         \* history: how many environment edits were made

vars == <<fault, data, fm, time, event_queue, call_index, pushed, op, edits>>

FireModes == DOMAIN fm

Op(name, f, arg) == [name |-> name, f |-> f, arg |-> arg]

\* Weapon.__init__: one FireMode per record; an exception of any of them
\* ends the construction
Weapon_init(weapons) ==
    \E w \in DOMAIN weapons :
        LET built == [f \in DOMAIN weapons[w] |-> FireMode_init(weapons[w][f], f)]
            bad == {f \in DOMAIN built : built[f].fault # "none"}
        IN  /\ data = weapons[w]
            /\ fault = IF bad = {} THEN "none"
                       ELSE built[CHOOSE f \in bad : TRUE].fault
            /\ fm = IF bad = {} THEN [f \in DOMAIN built |-> built[f].obj]
                    ELSE <<>>
            /\ time = Zero
            /\ event_queue = <<>>
            /\ call_index = 0
            /\ pushed = <<>>
            /\ op = Op("init", 0, Zero)
            /\ edits = 0

Init == Weapon_init(Weapons)

Running == fault = "none"

\* the modding layer writes one bucket entry
SetBucket(f, c) ==
    /\ Running /\ edits < MaxEdits
    /\ fm[f][c[1]][c[2]] # c[3]
    /\ fm' = [fm EXCEPT ![f][c[1]][c[2]] = c[3]]
    /\ edits' = edits + 1
    /\ op' = Op("set_bucket", f, c[3])
    /\ UNCHANGED <<fault, data, time, event_queue, call_index, pushed>>

\* fire_mode.apply_mods()
ApplyMods(f) ==
    /\ Running
    /\ LET r == apply_mods(fm[f])
       IN  /\ fm' = [fm EXCEPT ![f] = r.obj]
           /\ fault' = r.fault
    /\ op' = Op("apply_mods", f, Zero)
    /\ UNCHANGED <<data, time, event_queue, call_index, pushed, edits>>

\* fire_mode.reset(); the history keeps the magazine level the call found
Reset(f) ==
    /\ Running
    /\ fm' = [fm EXCEPT ![f] = FireMode_reset(@)]
    /\ op' = Op("reset", f, fm[f].magazineSize.current)
    /\ UNCHANGED <<fault, data, time, event_queue, call_index, pushed, edits>>

\* Weapon.reset(): every fire mode is reset
WeaponReset ==
    /\ Running
    /\ fm' = [f \in FireModes |-> FireMode_reset(fm[f])]
    /\ op' = Op("weapon_reset", 0, Zero)
    /\ UNCHANGED <<fault, data, time, event_queue, call_index, pushed, edits>>

\* fire_mode.damagePerShot.multiply(val), fire_mode.elementalDamagePerShot.multiply(val)
Multiply(f, attr, val) ==
    /\ Running /\ edits < MaxEdits
    /\ fm' = [fm EXCEPT ![f][attr] = DamageParameter_multiply(@, val)]
    /\ edits' = edits + 1
    /\ op' = Op("multiply", f, val)
    /\ UNCHANGED <<fault, data, time, event_queue, call_index, pushed>>

\* an effect record is added to the data of a constructed fire mode, and the
\* effect built from it is appended to fire_mode_effects
AttachEffect(f, name) ==
    /\ Running /\ edits < MaxEdits
    /\ name \notin DOMAIN Get(data[f], "secondaryEffects", NoFields)
    /\ LET effects == Join([n \in {name} |-> EffectCatalog[n]],
                           Get(data[f], "secondaryEffects", NoFields))
           rec == Join([secondaryEffects |-> effects], data[f])
           r == FireModeEffect_init([fm[f] EXCEPT !.data = rec], name)
       IN  /\ data' = [data EXCEPT ![f] = rec]
           /\ fault' = r.fault
           /\ fm' = IF r.fault # "none" THEN fm
                    ELSE [fm EXCEPT ![f].data = rec,
                                    ![f].fire_mode_effects = Append(@, r.obj)]
    /\ edits' = edits + 1
    /\ op' = Op("attach_effect", f, Zero)
    /\ UNCHANGED <<time, event_queue, call_index, pushed>>

\* the body of a call fire_mode.pull_trigger(fire_mode, enemy) at time t with
\* the queue q
Call_pull_trigger(f, t, q) ==
    /\ call_index < MaxIndex
    /\ \E roll \in get_tier(fm[f].multishot.modded) :
          \E r \in {pull_trigger(fm[f], f, t, roll,
                               [queue |-> q, call_index |-> call_index])} :
              /\ fm' = [fm EXCEPT ![f] = r.obj]
              /\ fault' = r.fault
              /\ event_queue' = r.sim.queue
              /\ call_index' = r.sim.call_index
              /\ pushed' = pushed \o
                     SubSeq(r.sim.queue, Len(q) + 1, Len(r.sim.queue))
              /\ op' = Op("pull_trigger", f, I(roll))
    /\ UNCHANGED <<data, edits>>

\* a pull_trigger event of fire mode f is waiting in the queue
Pending(f) ==
    \E i \in DOMAIN event_queue :
        event_queue[i].func = "pull_trigger" /\ event_queue[i].src[1] = f

\* the driver calls pull_trigger itself, to start a fire mode
PullTrigger(f) ==
    /\ Running /\ ~Pending(f)
    /\ time' = time
    /\ Call_pull_trigger(f, time, event_queue)

\* the order of the priority queue: time, then sequence number
Before(e1, e2) ==
    \/ RLt(e1.time, e2.time)
    \/ e1.time = e2.time /\ e1.seq < e2.seq

Without(q, p) == [i \in 1 .. (Len(q) - 1) |-> IF i < p THEN q[i] ELSE q[i + 1]]

\* the driver pops the least entry, sets the time and invokes the callback
Deliver ==
    /\ Running
    /\ \E p \in DOMAIN event_queue :
          LET e == event_queue[p]
          IN  /\ \A i \in DOMAIN event_queue : ~Before(event_queue[i], e)
              /\ time' = e.time
              /\ \/ /\ e.func = "pull_trigger"
                    /\ Call_pull_trigger(e.src[1], e.time, Without(event_queue, p))
                 \/ /\ e.func = "pellet_hit"
                    /\ event_queue' = Without(event_queue, p)
                    /\ op' = Op("pellet_hit", e.src[1], I(e.seq))
                    /\ UNCHANGED <<fault, data, fm, call_index, pushed, edits>>

Next ==
    \/ \E f \in FireModes, c \in ModChoices : SetBucket(f, c)
    \/ \E f \in FireModes : ApplyMods(f)
    \/ \E f \in FireModes : Reset(f)
    \/ WeaponReset
    \/ \E f \in FireModes, val \in MultiplyFactors :
          \/ Multiply(f, "damagePerShot", val)
          \/ Multiply(f, "elementalDamagePerShot", val)
    \/ \E f \in FireModes, name \in DOMAIN EffectCatalog : AttachEffect(f, name)
    \/ \E f \in FireModes : PullTrigger(f)
    \/ Deliver

Spec == Init /\ [][Next]_vars

\* the two fire modes of one weapon on the shared queue, with the fire modes
\* as they were built
InitPair == Weapon_init(PairWeapons)

NextPair ==
    \/ \E f \in FireModes, name \in DOMAIN EffectCatalog : AttachEffect(f, name)
    \/ WeaponReset
    \/ \E f \in FireModes : PullTrigger(f)
    \/ Deliver

SpecPair == InitPair /\ [][NextPair]_vars

\* the modding layer equips a fresh fire mode: it writes one bucket entry and
\* calls apply_mods()
Equip(f, c) ==
    /\ Running /\ op.name = "init"
    /\ \E r \in {apply_mods([fm[f] EXCEPT ![c[1]][c[2]] = c[3]])} :
          /\ fm' = [fm EXCEPT ![f] = r.obj]
          /\ fault' = r.fault
    /\ op' = Op("equip", f, c[3])
    /\ UNCHANGED <<data, time, event_queue, call_index, pushed, edits>>

\* fire modes that are equipped, edited, fired once and modded again
NextMods ==
    \/ \E f \in FireModes, c \in ModChoices : Equip(f, c)
    \/ \E f \in FireModes, c \in ModChoices : SetBucket(f, c)
    \/ \E f \in FireModes : ApplyMods(f)
    \/ \E f \in FireModes : Reset(f)
    \/ \E f \in FireModes, val \in MultiplyFactors :
          \/ Multiply(f, "damagePerShot", val)
          \/ Multiply(f, "elementalDamagePerShot", val)
    \/ \E f \in FireModes : PullTrigger(f)

SpecMods == Init /\ [][NextMods]_vars

(***************************************************************************)
(* Properties                                                              *)
(***************************************************************************)
Range(q) == {q[i] : i \in DOMAIN q}

\* the entries the step removes from the queue
Popped == {e \in Range(event_queue) : e \notin Range(event_queue')}

\* the place of an entry in the history of the puts
Pos(e) == CHOOSE i \in DOMAIN pushed : pushed[i] = e

SeqsIncrease ==
    /\ \A i, j \in DOMAIN pushed : i < j => pushed[i].seq < pushed[j].seq
    /\ \A i \in DOMAIN pushed : pushed[i].seq < call_index

NoSharedKey ==
    \A i, j \in DOMAIN event_queue :
        i # j => <<event_queue[i].time, event_queue[i].seq>>
                     # <<event_queue[j].time, event_queue[j].seq>>

FifoWithinTick ==
    \A e \in Popped, e2 \in Range(event_queue) :
        e2 # e /\ e2.time = e.time => Pos(e) < Pos(e2)

\* C1: every event pull_trigger pushes carries a sequence number greater than
\* that of every event pushed before it, by any call of any fire mode; no
\* two queue entries share a (time, sequence) pair; and the entry the driver
\* pops was pushed before every waiting entry of the same timestamp.
C1_FreshSequence == []SeqsIncrease /\ []NoSharedKey /\ [][FifoWithinTick]_vars

\* two fire modes pushed events of one timestamp; the one pushed first was
\* delivered and the other still waits
C1_Witness ==
    \E i, j \in DOMAIN pushed :
        /\ i < j
        /\ pushed[i].time = pushed[j].time
        /\ pushed[i].src[1] # pushed[j].src[1]
        /\ pushed[i] \notin Range(event_queue)
        /\ pushed[j] \in Range(event_queue)

\* no waiting entry is stamped before the simulation time
QueueNotPast == \A e \in Range(event_queue) : RGe(e.time, time)

\* the delays of fire mode object s that the claim asks to be non-negative,
\* and its positive fire rate
DelaysNonNegative(s) ==
    /\ RGt(s.fireRate.modded, Zero)
    /\ RGe(s.embedDelay.modded, Zero)
    /\ RGe(s.chargeTime.modded, Zero)
    /\ RGe(s.reloadTime.modded, Zero)
    /\ \A i \in DOMAIN s.fire_mode_effects :
          RGe(s.fire_mode_effects[i].embedDelay, Zero)

\* C2: while the fire mode whose trigger is pulled has a positive fire rate
\* and non-negative embed delay, effect embed delays, charge time and reload
\* time, pull_trigger puts no event stamped before the simulation time, and
\* the time the driver sets at each delivery never decreases.
C2_TimeMonotone ==
    [][QueueNotPast /\ (op'.name = "pull_trigger" => DelaysNonNegative(fm[op'.f]))
         => QueueNotPast' /\ RGe(time', time)]_vars

\* a delivered pull_trigger event ran at a later time on a fire mode with
\* effects that meets the conditions, and its events wait in the queue
C2_Witness ==
    /\ op.name = "pull_trigger" /\ fault = "none"
    /\ RGt(time, Zero)
    /\ DelaysNonNegative(fm[op.f])
    /\ fm[op.f].fire_mode_effects # <<>>
    /\ \E e \in Range(event_queue) : e.func = "pellet_hit" /\ RGt(e.time, time)

\* the pull_trigger events fire mode f has pushed
PullsPushed(f) ==
    {i \in DOMAIN pushed : pushed[i].func = "pull_trigger" /\ pushed[i].src[1] = f}

\* C3: in every state between callbacks, after construction and after any
\* sequence of operations, magazineSize.current of every fire mode is not
\* negative (magazine sizes of the data are not negative and no magazine
\* modifier is below -1).
C3_MagazineNotNegative ==
    \A f \in FireModes : RGe(fm[f].magazineSize.current, Zero)

\* a second pull_trigger of a fire mode returned whose ammo cost exceeds its
\* magazine: the decrement went below zero and the magazine was refilled
C3_Witness ==
    /\ op.name = "pull_trigger" /\ fault = "none"
    /\ Cardinality(PullsPushed(op.f)) >= 2
    /\ RLt(fm[op.f].magazineSize.modded, fm[op.f].ammoCost.modded)
    /\ fm[op.f].magazineSize.current = fm[op.f].magazineSize.modded

\* the parameters of a fire mode
ParameterNames ==
    {"damagePerShot", "elementalDamagePerShot", "criticalChance",
     "criticalMultiplier", "procChance", "magazineSize", "fireRate",
     "reloadTime", "multishot", "ammoCost", "chargeTime", "embedDelay"}

\* the base value of every parameter of fire mode object s
Bases(s) == [a \in ParameterNames |-> s[a].base]

\* C4: once construction has finished no operation (apply_mods, reset,
\* DamageParameter.multiply, pull_trigger) changes the base value of any
\* parameter of a fire mode.
C4_BasesFixed ==
    [][\A f \in FireModes : Bases(fm'[f]) = Bases(fm[f])]_vars

\* the modifier buckets of a fire mode
BucketNames ==
    {"damagePerShot_m", "bonusDamagePerShot_m", "criticalChance_m",
     "criticalMultiplier_m", "procChance_m", "magazineSize_m", "fireRate_m",
     "reloadTime_m", "multishot_m", "heat_m", "cold_m", "electric_m",
     "toxin_m", "blast_m", "radiation_m", "gas_m", "magnetic_m", "viral_m",
     "corrosive_m", "impact_m", "puncture_m", "slash_m", "statusDuration_m",
     "factionDamage_m", "ammoCost_m"}

Buckets(s) == [b \in BucketNames |-> s[b]]

\* every derived field of fire mode object s equals its base field
DerivedAtBase(s) ==
    /\ \A a \in ParameterNames : s[a].modded = s[a].base
    /\ \A a \in {"damagePerShot", "elementalDamagePerShot"} :
          s[a].quantized = s[a].base

\* the fire modes the step resets
ResetBy(o) ==
    IF o.name = "reset" THEN {o.f}
    ELSE IF o.name = "weapon_reset" THEN FireModes ELSE {}

\* C5: after reset() of a fire mode in any reachable state, modded of every
\* parameter and quantized of both damage parameters equal base, every
\* modifier bucket holds what it held before the call, and a second reset()
\* changes nothing.
C5_ResetRestores ==
    [][\A f \in ResetBy(op') :
          /\ DerivedAtBase(fm'[f])
          /\ Buckets(fm'[f]) = Buckets(fm[f])
          /\ FireMode_reset(fm'[f]) = fm'[f]]_vars

\* reset() ran on a fire mode whose damage arrays apply_mods had rebound
\* under a non-default bucket
C5_Witness ==
    /\ op.name = "reset"
    /\ \E c \in ModChoices : fm[op.f][c[1]][c[2]] = c[3]
    /\ fm[op.f].elementalDamagePerShot.base # ZeroVec
    /\ DerivedAtBase(fm[op.f])

\* C6 as stated: reset() leaves magazineSize.current of the fire mode as it
\* was before the call.
C6_ResetKeepsMagazine ==
    [][\A f \in ResetBy(op') :
          fm'[f].magazineSize.current = fm[f].magazineSize.current]_vars

\* C6: reset() refills the magazine: after the call magazineSize.current of
\* the fire mode equals magazineSize.base, and so magazineSize.modded,
\* whatever it was before the call.
C6_ResetRefillsMagazine ==
    [][\A f \in ResetBy(op') :
          /\ fm'[f].magazineSize.current = fm[f].magazineSize.base
          /\ fm'[f].magazineSize.current = fm'[f].magazineSize.modded]_vars

\* reset() ran on a fire mode whose magazine was partly emptied
C6_Witness ==
    /\ op.name = "reset"
    /\ RLt(Zero, op.arg)
    /\ RLt(op.arg, fm[op.f].magazineSize.base)
    /\ fm[op.f].magazineSize.current = fm[op.f].magazineSize.base

\* the effect entries the record of fire mode f lists
EffectEntries(f) == DOMAIN Get(data[f], "secondaryEffects", NoFields)

\* C7: constructing a fire mode from a record that lists secondary effects
\* completes without a fault and yields one FireModeEffect per entry.
C7_EffectsConstructed ==
    op.name = "init" =>
        \A f \in DOMAIN data :
            EffectEntries(f) # {} =>
                /\ fault = "none"
                /\ f \in FireModes
                /\ Len(fm[f].fire_mode_effects) = Cardinality(EffectEntries(f))

\* the value the claim gives the field of an effect of parent object s: the
\* record's own value, else the parent's modded value
OwnOrParentModded(s, e, field) ==
    IF field \in DOMAIN e.data THEN e.data[field] ELSE s[field].modded

\* C8: each of the fields damage, critical chance, critical multiplier,
\* status chance, multishot and embed delay of every FireModeEffect holds the
\* value of its own record when the record has the field, and otherwise the
\* parent fire mode's modded value of that field.
C8_EffectFields ==
    \A f \in FireModes : \A i \in DOMAIN fm[f].fire_mode_effects :
        LET e == fm[f].fire_mode_effects[i]
        IN  /\ \A field \in {"damagePerShot", "criticalChance",
                              "criticalMultiplier", "procChance"} :
                  e[field] = Own(OwnOrParentModded(fm[f], e, field))
            /\ \A field \in {"multishot", "embedDelay"} :
                  e[field] = OwnOrParentModded(fm[f], e, field)

\* the entries the step puts, in the order of the puts
NewEntries == SubSeq(pushed', Len(pushed) + 1, Len(pushed'))

\* the hit the claim expects at place k of a call on fire mode f, object s,
\* at time t: the places of a cluster are the primary hit, then the effects
\* in their order
ExpectedHit(s, f, t, k) ==
    LET j == (k - 1) % (1 + Len(s.fire_mode_effects))
        fm_time == RAdd(t, s.embedDelay.modded)
    IN  [func |-> "pellet_hit", src |-> <<f, j>>,
         time |-> IF j = 0 THEN fm_time
                  ELSE RAdd(fm_time, s.fire_mode_effects[j].embedDelay)]

HitsAsClaimed(s, f, t, r) ==
    LET clusters == IF s.trigger = "HELD" THEN 1 ELSE r
        n == clusters * (1 + Len(s.fire_mode_effects))
    IN  /\ Len(NewEntries) >= n
        /\ \A k \in 1 .. n :
              /\ NewEntries[k].func = "pellet_hit"
              /\ NewEntries[k].src = ExpectedHit(s, f, t, k).src
              /\ NewEntries[k].time = ExpectedHit(s, f, t, k).time
        /\ \A k \in (n + 1) .. Len(NewEntries) :
              NewEntries[k].func # "pellet_hit"
        /\ s.trigger = "HELD" =>
              /\ fm'[f].damagePerShot_m["multishot_multiplier"] = I(r)
              /\ fm'[f].procChance_m["multishot_multiplier"] = I(r)

\* C9: a pull_trigger call with roll r on a fire mode with E effects puts,
\* when the trigger is HELD, one cluster (a primary hit and E effect hits)
\* whatever r is and sets both multishot_multiplier entries to r; otherwise
\* r clusters.  A primary hit is stamped time + embedDelay.modded, an effect
\* hit that plus the effect's embedDelay, and the primary hit of a cluster
\* is put before its effect hits.
C9_HitClusters ==
    [][op'.name = "pull_trigger" =>
          HitsAsClaimed(fm[op'.f], op'.f, time', RTrunc(op'.arg))]_vars

\* a HELD fire mode with an effect was fired with roll 2 and put one cluster
C9_Witness ==
    /\ op.name = "pull_trigger"
    /\ op.arg = I(2)
    /\ fm[op.f].trigger = "HELD"
    /\ fm[op.f].fire_mode_effects # <<>>
    /\ fm[op.f].damagePerShot_m["multishot_multiplier"] = I(2)
    /\ Len(pushed) = 2 + Len(fm[op.f].fire_mode_effects)

NextPullAsClaimed(s, f, t) ==
    LET last == NewEntries[Len(NewEntries)]
        left == RSub(s.magazineSize.current, s.ammoCost.modded)
        period == RDiv(One, s.fireRate.modded)
    IN  /\ NewEntries # <<>>
        /\ last.func = "pull_trigger" /\ last.src = <<f, 0>>
        /\ \A k \in 1 .. (Len(NewEntries) - 1) :
              NewEntries[k].func = "pellet_hit"
        /\ IF RGt(left, Zero)
           THEN /\ fm'[f].magazineSize.current = left
                /\ last.time = RAdd(RAdd(t, period), s.chargeTime.modded)
           ELSE /\ fm'[f].magazineSize.current = s.magazineSize.modded
                /\ last.time = RAdd(RAdd(t, RMax(s.reloadTime.modded, period)),
                                    s.chargeTime.modded)

\* C10: a pull_trigger call that returns puts one next pull_trigger event,
\* after all its hit events.  When the magazine is above zero after the
\* decrement it is left as decremented and the event is stamped
\* time + 1/fireRate.modded + chargeTime.modded; otherwise the magazine is
\* set to magazineSize.modded and the event is stamped
\* time + max(reloadTime.modded, 1/fireRate.modded) + chargeTime.modded.
C10_NextPull ==
    [][op'.name = "pull_trigger" /\ fault' = "none" =>
          NextPullAsClaimed(fm[op'.f], op'.f, time')]_vars

\* a pull_trigger emptied the magazine of a fire mode whose reload time
\* exceeds its shot period: it refilled it and scheduled the reload
C10_Witness ==
    /\ op.name = "pull_trigger" /\ fault = "none"
    /\ pushed # <<>>
    /\ LET s == fm[op.f]
           last == pushed[Len(pushed)]
       IN  /\ ~IsZero(s.fireRate.modded)
           /\ RGt(s.reloadTime.modded, RDiv(One, s.fireRate.modded))
           /\ s.magazineSize.current = s.magazineSize.modded
           /\ last.func = "pull_trigger"
           /\ last.time = RAdd(RAdd(time, s.reloadTime.modded),
                               s.chargeTime.modded)

\* the fire modes the step ran apply_mods on: construction runs it on every
\* fire mode
AppliedBy(o) ==
    IF o.name = "apply_mods" THEN {o.f}
    ELSE IF o.name = "init" THEN FireModes ELSE {}

DamageNames == {"damagePerShot", "elementalDamagePerShot"}

\* C11: for a fire mode whose base damage vector is all zeros, apply_mods
\* completes without a fault and leaves every modded and quantized damage
\* value and every procProbabilities entry zero.
C11_ZeroDamageDefined ==
    \A f \in AppliedBy(op) :
        fm[f].damagePerShot.base = ZeroVec =>
            /\ fault = "none"
            /\ \A a \in DamageNames :
                  fm[f][a].modded = ZeroVec /\ fm[f][a].quantized = ZeroVec
            /\ fm[f].procProbabilities = ZeroVec

\* what apply_mods computes: modded of every parameter, quantized of both
\* damage parameters and procProbabilities
Derived(s) ==
    [modded |-> [a \in ParameterNames |-> s[a].modded],
     quantized |-> [a \in DamageNames |-> s[a].quantized],
     procProbabilities |-> s.procProbabilities]

RCeil(a) == -((-a[1]) \div a[2])

\* a is a natural number
IsNatural(a) == a[2] = 1 /\ a[1] >= 0

\* the calls of the running magazine cycle that have returned, when the
\* magazine of fire mode object s stands at M - j*c for a natural number j
CallsInCycle(s) ==
    RDiv(RSub(s.magazineSize.modded, s.magazineSize.current), s.ammoCost.modded)

\* the step is call number j + 1 of a cycle that started with the magazine at
\* M = magazineSize.modded > 0, under the ammo cost c = ammoCost.modded > 0
InCycle(s) ==
    /\ RGt(s.ammoCost.modded, Zero)
    /\ RGt(s.magazineSize.modded, Zero)
    /\ RGt(s.magazineSize.current, Zero)
    /\ IsNatural(CallsInCycle(s))

ReloadPeriodAsClaimed(s, after) ==
    LET M == s.magazineSize.modded
        c == s.ammoCost.modded
        call == CallsInCycle(s)[1] + 1
    IN  IF call = RCeil(RDiv(M, c))
        THEN after.magazineSize.current = M
        ELSE /\ call < RCeil(RDiv(M, c))
             /\ after.magazineSize.current = RSub(M, RMul(I(call), c))

\* C13: starting from a magazine holding M = magazineSize.modded > 0 with
\* ammo cost c = ammoCost.modded > 0, the call number ceil(M/c) of
\* pull_trigger, and no earlier call, takes the reload branch and leaves the
\* magazine at M again; every earlier call number k leaves it at M - k*c,
\* whatever the roll and the trigger type are.
C13_ReloadPeriod ==
    [][op'.name = "pull_trigger" /\ InCycle(fm[op'.f]) =>
          ReloadPeriodAsClaimed(fm[op'.f], fm'[op'.f])]_vars

\* the third pull_trigger of a HELD fire mode with magazine 3 and ammo cost
\* 2: the second call reloaded and the cycle has started again
C13_Witness ==
    /\ op.name = "pull_trigger" /\ fault = "none"
    /\ fm[op.f].trigger = "HELD"
    /\ Cardinality(PullsPushed(op.f)) = 3
    /\ fm[op.f].magazineSize.modded = I(3)
    /\ fm[op.f].ammoCost.modded = I(2)
    /\ fm[op.f].magazineSize.current = One


(***************************************************************************)
(* Quantization over a family of base damage vectors                       *)
(***************************************************************************)
\* the slots the family may fill
GivenSlots == 0 .. 5

\* the damage a filled slot holds: equal shares, or shares that fall halfway
\* between two multiples of the quantum
SlotDamage ==
    [unit |-> <<I(1), I(1), I(1), I(1), I(1), I(1)>>,
     odd |-> <<I(7), I(7), I(7), I(11), I(3), I(5)>>]

\* one single-fire-mode weapon per family and set of filled slots
QuantWeapons ==
    [w \in (DOMAIN SlotDamage) \X (SUBSET GivenSlots) |->
        << [damagePerShot |->
               Array(LAMBDA i : IF i \in w[2] THEN SlotDamage[w[1]][i + 1]
                                ELSE Zero)] >>]

InitQuant == Weapon_init(QuantWeapons)

NextQuant ==
    \/ \E f \in FireModes, c \in ModChoices : SetBucket(f, c)
    \/ \E f \in FireModes : ApplyMods(f)

SpecQuant == InitQuant /\ [][NextQuant]_vars

RAbs(a) == <<Abs(a[1]), a[2]>>

\* sum of the modded (or quantized) slots of both damage parameters
TotalOf(s, field) ==
    RAdd(VSum(s.damagePerShot[field]), VSum(s.elementalDamagePerShot[field]))

Quantum(s) == RDiv(TotalOf(s, "modded"), I(QuantaSteps))

\* the slots of both damage parameters whose modded value is not zero
NonZeroSlots(s) ==
    {<<a, i>> \in DamageNames \X Slots : ~IsZero(At(s[a].modded, i))}

\* C14 as stated: after apply_mods with a positive total damage, the sum of
\* the quantized slots differs from the sum of the modded slots by at most
\* one quantum.
C14_SumWithinOneQuantum ==
    \A f \in AppliedBy(op) :
        RGt(TotalOf(fm[f], "modded"), Zero) =>
            RLe(RAbs(RSub(TotalOf(fm[f], "quantized"), TotalOf(fm[f], "modded"))),
                Quantum(fm[f]))

\* C14 as amended: after apply_mods with a positive total damage every
\* quantized slot is a whole multiple of the quantum that differs from its
\* modded slot by at most half a quantum, so the sums differ by at most half
\* a quantum for each slot whose modded value is not zero.
C14_SlotWithinHalfQuantum ==
    \A f \in AppliedBy(op) :
        RGt(TotalOf(fm[f], "modded"), Zero) =>
            \A quantum \in {Quantum(fm[f])} :
                /\ \A a \in DamageNames, i \in Slots :
                      /\ RLe(RAbs(RSub(At(fm[f][a].quantized, i),
                                       At(fm[f][a].modded, i))),
                             RDiv(quantum, I(2)))
                      /\ RDiv(At(fm[f][a].quantized, i), quantum)[2] = 1
                /\ RLe(RAbs(RSub(TotalOf(fm[f], "quantized"),
                                 TotalOf(fm[f], "modded"))),
                       RMul(I(Cardinality(NonZeroSlots(fm[f]))),
                            RDiv(quantum, I(2))))

\* apply_mods under a heat modifier has rounded six equal shares and the heat
\* share, and the sums differ
C14_Witness ==
    /\ op.name = "apply_mods"
    /\ fm[op.f].heat_m["base"] # Zero
    /\ Cardinality(NonZeroSlots(fm[op.f])) = 7
    /\ RGt(TotalOf(fm[op.f], "modded"), Zero)
    /\ TotalOf(fm[op.f], "quantized") # TotalOf(fm[op.f], "modded")


\* the proc weights of the quantized damage, slot by slot
QuantizedWeights(s) ==
    VAdd(s.damagePerShot.quantized, s.elementalDamagePerShot.quantized)

\* C15: after apply_mods, procProbabilities[i] is the quantized damage of
\* slot i (physical plus elemental) divided by the sum of the quantized
\* damage of all slots when that sum is > 0, and 0 in every slot otherwise.
C15_ProcFromQuantized ==
    \A f \in AppliedBy(op) :
        \A w \in {QuantizedWeights(fm[f])} :
            \A tot_weight \in {VSum(w)} :
                fm[f].procProbabilities =
                    IF RGt(tot_weight, Zero)
                    THEN Array(LAMBDA i : RDiv(At(w, i), tot_weight))
                    ELSE ZeroVec


\* C16: multiply(f) on a DamageParameter leaves modded equal to f times its
\* previous value and quantized equal to f times its previous value, each
\* scaled once, and leaves base unchanged.
C16_MultiplyScalesOnce ==
    [][op'.name = "multiply" =>
          \A a \in DamageNames :
              \/ fm'[op'.f][a] = fm[op'.f][a]
              \/ /\ fm'[op'.f][a].modded = VScale(fm[op'.f][a].modded, op'.arg)
                 /\ fm'[op'.f][a].quantized =
                        VScale(fm[op'.f][a].quantized, op'.arg)
                 /\ fm'[op'.f][a].base = fm[op'.f][a].base]_vars


\* C17: pull_trigger on a fire mode whose fireRate.modded is 0 ends in a
\* division fault and puts no next pull_trigger event of that fire mode in
\* the queue, with ammunition left and on a reload alike.
C17_ZeroFireRateFaults ==
    [][op'.name = "pull_trigger" /\ IsZero(fm[op'.f].fireRate.modded) =>
          /\ fault' = "ZeroDivisionError"
          /\ \A k \in DOMAIN NewEntries :
                ~(NewEntries[k].func = "pull_trigger"
                  /\ NewEntries[k].src[1] = op'.f)
          /\ \A i \in DOMAIN event_queue' :
                ~(event_queue'[i].func = "pull_trigger"
                  /\ event_queue'[i].src[1] = op'.f)]_vars

\* the reload branch: the call emptied the magazine of one round and refilled
\* it before the division
C17_Witness ==
    /\ op.name = "pull_trigger" /\ fault = "ZeroDivisionError"
    /\ IsZero(fm[op.f].fireRate.modded)
    /\ fm[op.f].magazineSize.modded = One
    /\ fm[op.f].magazineSize.current = One
    /\ PullsPushed(op.f) = {}

\* the branch with ammunition left: one round of two is gone at the division
C17_WitnessAmmoLeft ==
    /\ op.name = "pull_trigger" /\ fault = "ZeroDivisionError"
    /\ IsZero(fm[op.f].fireRate.modded)
    /\ fm[op.f].magazineSize.modded = I(2)
    /\ fm[op.f].magazineSize.current = One
    /\ PullsPushed(op.f) = {}


(***************************************************************************)
(* The trigger chain under a fair driver                                   *)
(***************************************************************************)
ChainWeapons == Weapons \o PairWeapons

InitChain == Weapon_init(ChainWeapons)

\* the driver seeds a fire mode and runs the queue; reset() may be called
\* between callbacks
NextChain ==
    \/ \E f \in FireModes : PullTrigger(f)
    \/ \E f \in FireModes : Reset(f)
    \/ Deliver

\* the driver loop does not stop while it can pop an entry
SpecChain == InitChain /\ [][NextChain]_vars /\ WF_vars(Deliver)

\* the fire-mode positions of the weapons
ChainIds == DOMAIN PairWeapons[1]

\* the pull_trigger entries of fire mode f that wait in the queue
PendingPulls(f) ==
    {i \in DOMAIN event_queue :
        event_queue[i].func = "pull_trigger" /\ event_queue[i].src[1] = f}

\* fire mode f has a positive fire rate and its chain has been seeded
Seeded(f) ==
    /\ f \in FireModes
    /\ RGt(fm[f].fireRate.modded, Zero)
    /\ PullsPushed(f) # {}

OnePending ==
    \A f \in ChainIds : Seeded(f) => Cardinality(PendingPulls(f)) = 1

\* C18: once a pull_trigger event of a fire mode with a positive fire rate
\* is seeded, exactly one pull_trigger event of that fire mode waits in the
\* queue between callbacks, and under a fair driver the pull_trigger of that
\* fire mode is invoked again and again, as long as the sequence counter is
\* below its bound.
C18_TriggerChain ==
    /\ []OnePending
    /\ \A f \in ChainIds :
          []<>(\/ ~Seeded(f)
               \/ op.name = "pull_trigger" /\ op.f = f
               \/ call_index >= MaxIndex)

\* the driver has invoked the pull_trigger of a HELD fire mode for the third
\* time and its next pull waits in the queue
C18_Witness ==
    /\ op.name = "pull_trigger" /\ Seeded(op.f)
    /\ Cardinality(PullsPushed(op.f)) = 3
    /\ Cardinality(PendingPulls(op.f)) = 1
    /\ RGt(time, Zero)


\* fire mode object s with the attributes pull_trigger may write taken from
\* the object after
FramedBy(s, after) ==
    LET s1 == [s EXCEPT !.magazineSize.current = after.magazineSize.current]
    IN  IF s.trigger = "HELD"
        THEN [s1 EXCEPT
                !.damagePerShot_m["multishot_multiplier"] =
                    after.damagePerShot_m["multishot_multiplier"],
                !.procChance_m["multishot_multiplier"] =
                    after.procChance_m["multishot_multiplier"]]
        ELSE s1

\* C19: a pull_trigger call changes only magazineSize.current of its fire
\* mode, the event queue and the sequence counter, and for a HELD trigger
\* the two multishot_multiplier bucket entries, which take the roll; every
\* base, modded and quantized value, procProbabilities, every other bucket
\* entry, the other fire modes and the records stay as they were, and the
\* queue only gains the entries the call put.
C19_PullTriggerFrame ==
    [][op'.name = "pull_trigger" =>
          /\ fm'[op'.f] = FramedBy(fm[op'.f], fm'[op'.f])
          /\ fm[op'.f].trigger = "HELD" =>
                /\ fm'[op'.f].damagePerShot_m["multishot_multiplier"] = op'.arg
                /\ fm'[op'.f].procChance_m["multishot_multiplier"] = op'.arg
          /\ \A g \in FireModes \ {op'.f} : fm'[g] = fm[g]
          /\ data' = data
          /\ Range(event_queue') \subseteq
                 Range(event_queue) \cup Range(NewEntries)
          /\ call_index' = call_index + Len(NewEntries)]_vars

\* a HELD pull_trigger rolled 2: the buckets hold the roll while the modded
\* damage and status chance are still those of the multiplier 1
C19_Witness ==
    /\ op.name = "pull_trigger" /\ op.arg = I(2) /\ fault = "none"
    /\ fm[op.f].trigger = "HELD"
    /\ fm[op.f].damagePerShot_m["multishot_multiplier"] = I(2)
    /\ fm[op.f].procChance_m["multishot_multiplier"] = I(2)
    /\ fm[op.f].damagePerShot.modded = fm[op.f].damagePerShot.base
    /\ fm[op.f].procChance.modded = fm[op.f].procChance.base

=============================================================================
